---- MODULE Spec2Model ----
(***************************************************************************)
(* Telemetry ingestion core of the GPS tracker backend:                    *)
(*   - alertService.js   : geofence evaluator (handleGeofence)             *)
(*   - utils/inactivity  : inactivity scheduler (bumpActivity, timers)     *)
(*   - mqttService.js    : ingestion gateway (handleMessage)               *)
(* Time is a discrete clock `now` (Date.now()); one tick is an arbitrary   *)
(* unit, durations are scaled to it.  Every `await` of the source is a     *)
(* point where another handler or timer callback may run, so each async    *)
(* function is cut into one action per synchronous segment.                *)
(***************************************************************************)
EXTENDS Integers, Sequences, FiniteSets, TLC

VARIABLES
    now,          \* Date.now()
    lastState,    \* alertService.js: lastState Map, deviceId -> geofence state
    geoFlight,    \* handleGeofence calls suspended at an await
    geoLog,       \* history: one record per handleGeofence call with a geofence
    serialState,  \* history: lastState had the calls run one after the other
    restarted,    \* history: the process was restarted (in-memory maps lost)
                  \* geoLog[i].epoch is its value when sample i arrived
    geofence,     \* stored Device.geofence (JSON column) per deviceId
    lastCall      \* history: the last handleGeofence call and its classification


VARIABLES
    timers,       \* utils/inactivity: timers Map, deviceId -> timeout handle
    nodeTimers,   \* the armed timeouts of the runtime: [h, dev, due]
    states,       \* utils/inactivity: states Map, deviceId -> state object
    heap,         \* the state objects; the Map and the callbacks hold references
    inactFlight,  \* timer callbacks and bumpActivity calls suspended at an await
    bootPc,       \* bootstrapInactivityTimers: "init", "loading" or "done"
    bootSnap,     \* the rows Device.findAll returned to it
    devLastSeen,  \* stored Device.lastSeen (Null when never seen)
    inactEvents,  \* history: the deviceInactive events emitted
    lastBump,     \* history: per device, the time of the last bumpActivity call
                  \* (cur) and of the last one in an earlier tick (prev)
    quiet,        \* history: deviceInactive events per device since the last call
    msgLog,       \* history: one record per ingested message
    secondBump    \* messages whose saveLocationHistory has not yet run to its
                  \* bumpActivity call

VARIABLES
    handlers,     \* mqttService: one record per message the client delivered
    deviceRows,   \* the devices table: lastSeen, isActive and currentLocation
                  \* per deviceId
    history,      \* the locations table: per device, the rows in insertion order
    crashed       \* a rejection of handleMessage reached the MQTT client

VARIABLES
    lastFailure   \* history: the last lookup or send of an alert that failed

VARIABLES
    locations,    \* LocationHistoryTable: the `locations` prop of the component
    renderAt,     \* Date.now() when the visits memo runs
    sorted,       \* the samples of the last 24 hours, ascending by time
    vpos,         \* how many of them the loop has taken
    cluster,      \* centerLat (as a fraction), count, start, end of the loop
    out,          \* the visits pushed so far
    vstage        \* "idle", "loop" or "done"

VARIABLES
    requests,     \* controllers/devices: the HTTP requests being handled
    responses     \* history: the device records returned to callers

VARIABLES
    addressCache, \* per service module, the Map addressCache: key -> {value, ts}
    lookups       \* the calls of reverseGeocode: position, times and result

geoVars == <<lastState, geoFlight, geoLog, serialState, restarted, geofence,
             lastCall>>
inactVars == <<timers, nodeTimers, states, heap, inactFlight, bootPc,
               bootSnap, devLastSeen, inactEvents, lastBump, quiet, msgLog,
               secondBump>>
ingestVars == <<handlers, deviceRows, history, crashed>>
apiVars == <<requests, responses>>
cacheVars == <<addressCache, lookups>>
frontVars == <<locations, renderAt, sorted, vpos, cluster, out, vstage>>
vars == <<now, geoVars, inactVars, ingestVars, apiVars, lastFailure, cacheVars, frontVars>>

----------------------------------------------------------------------------
(* Bounds *)
MaxTime == 4
MaxSamples == 4
MaxInflight == 2
MaxMsgs == 2
MaxReceived == 2
MaxRequests == 2
MaxUpdates == 2
MaxLen == 3
MaxLookups == 2

Devices == {"d1"}

----------------------------------------------------------------------------
(* Clock *)

\* timeouts fire when they are due: the clock does not pass an armed timeout
Tick ==
    /\ now < MaxTime
    /\ \A tm \in nodeTimers : tm.due > now
    /\ now' = now + 1
    /\ UNCHANGED <<geoVars, inactVars, ingestVars, apiVars, lastFailure, cacheVars, frontVars>>

----------------------------------------------------------------------------
(* utils/geofence.js *)

\* one edge test of the ray casting loop; the divisor (yj - yi) is non-zero
\* whenever the first conjunct holds, so the quotient is compared by
\* cross-multiplication
Intersect(outer, i, j, lng, lat) ==
    LET xi == outer[i][1]
        yi == outer[i][2]
        xj == outer[j][1]
        yj == outer[j][2]
    IN  /\ (yi > lat) # (yj > lat)
        /\ IF yj - yi > 0
             THEN (lng - xi) * (yj - yi) < (xj - xi) * (lat - yi)
             ELSE (lng - xi) * (yj - yi) > (xj - xi) * (lat - yi)

RECURSIVE RayCast(_, _, _, _)
RayCast(outer, i, lng, lat) ==
    IF i > Len(outer) THEN FALSE
    ELSE LET j == IF i = 1 THEN Len(outer) ELSE i - 1
             rest == RayCast(outer, i + 1, lng, lat)
         IN  IF Intersect(outer, i, j, lng, lat) THEN ~rest ELSE rest

\* "null", "true" or "false"
isPointInsidePolygon(polygon, point) ==
    IF Len(polygon) = 0 THEN "null"
    ELSE IF Len(polygon[1]) < 4 THEN "null"
    ELSE IF RayCast(polygon[1], 1, point[1], point[2]) THEN "true" ELSE "false"

\* coordinates of two GeoJSON polygons: squares, closed outer rings
Fence == << << <<0, 0>>, <<4, 0>>, <<4, 4>>, <<0, 4>>, <<0, 0>> >> >>
Fence2 == << << <<5, 0>>, <<9, 0>>, <<9, 4>>, <<5, 4>>, <<5, 0>> >> >>

\* values of the geofence column: null, one { type: 'Polygon', coordinates }
\* object, or an array of such objects (polygons holds their coordinates)
NoGeofence == [kind |-> "null", polygons |-> << >>]
PolygonObject(coordinates) == [kind |-> "object", polygons |-> <<coordinates>>]
PolygonArray(list) == [kind |-> "array", polygons |-> list]

\* device?.geofence?.coordinates: undefined on null and on an array
NoCoordinates == [defined |-> FALSE, value |-> << >>]
GeofenceCoordinatesOrEmpty(g) ==
    [defined |-> TRUE, value |-> IF g.kind = "object" THEN g.polygons[1] ELSE << >>]
GeofenceCoordinates(g) ==
    IF g.kind = "object" THEN [defined |-> TRUE, value |-> g.polygons[1]]
    ELSE NoCoordinates
GeofenceOf(d) == GeofenceCoordinates(geofence[d])

\* [lng, lat] of the samples
Points == { <<2, 2>>, <<6, 2>> }

----------------------------------------------------------------------------
(* services/alertService.js *)

Undefined == -1
ExitDwellMs == 2
CooldownMs == 3

NoPrev == [inside |-> "null", lastAlertAt |-> 0, lastEvent |-> "null",
           outsideSince |-> Undefined, insideSince |-> Undefined]

shouldCooldown(prevTs, t) ==
    IF prevTs = 0 THEN FALSE ELSE t - prevTs < CooldownMs

\* line 214-215: since = outsideSince || now; metDwell = now - since >= dwellMs
metDwell(st, t) ==
    LET since == IF st.outsideSince = Undefined \/ st.outsideSince = 0
                   THEN t ELSE st.outsideSince
    IN  t - since >= ExitDwellMs

FirstObservationAlerts(prev, inside) == IF inside THEN "Enter" ELSE "Exit"

\* line 169-179: the first observation stores the state and sends nothing
FirstObservationEvent(prev, inside) == "none"

EnterEventWithCooldown(prev, t) ==
    IF shouldCooldown(prev.lastAlertAt, t) THEN "none" ELSE "Enter"

\* line 197-201: the ENTER alert is not subject to the cooldown
EnterEvent(prev, t) == "Enter"

\* line 216-218
ExitEvent(st, t) ==
    IF metDwell(st, t) /\ (st.lastEvent # "Exit" \/ ~shouldCooldown(st.lastAlertAt, t))
      THEN "Exit" ELSE "none"

\* the alert handleGeofence decides on, from the state it read and the sample
GeoEvent(prev, inside, t) ==
    IF prev.inside = "null" THEN FirstObservationEvent(prev, inside)
    ELSE IF prev.inside = "true" /\ ~inside THEN "none"
    ELSE IF prev.inside = "false" /\ inside THEN EnterEvent(prev, t)
    ELSE IF ~inside THEN ExitEvent(prev, t)
    ELSE "none"

\* the state handleGeofence stores (lastState.set) for the sample
GeoNewState(prev, inside, t) ==
    LET in == IF inside THEN "true" ELSE "false"
        ev == GeoEvent(prev, inside, t)
    IN  IF prev.inside = "null"
          THEN [inside |-> in, lastAlertAt |-> 0, lastEvent |-> "null",
                outsideSince |-> IF inside THEN Undefined ELSE t,
                insideSince |-> IF inside THEN t ELSE Undefined]
        ELSE IF prev.inside = "true" /\ ~inside
          THEN [prev EXCEPT !.inside = in, !.outsideSince = t, !.insideSince = Undefined]
        ELSE IF prev.inside = "false" /\ inside
          THEN [prev EXCEPT !.inside = in, !.lastAlertAt = t, !.lastEvent = "Enter",
                            !.insideSince = t, !.outsideSince = Undefined]
        ELSE IF ~inside /\ ev = "Exit"
          THEN [prev EXCEPT !.inside = in, !.lastAlertAt = t, !.lastEvent = "Exit"]
        ELSE [prev EXCEPT !.inside = in]

\* lastState.get(deviceId) || { inside: null, lastAlertAt: 0, lastEvent: null }
GeoGet(map, d) == IF d \in DOMAIN map THEN map[d] ELSE NoPrev
GeoSet(map, d, st) == [x \in (DOMAIN map) \cup {d} |-> IF x = d THEN st ELSE map[x]]
EmptyMap == [x \in {} |-> NoPrev]

\* handleGeofence up to its first await (or to its return when it sends nothing)
handleGeofenceCall(d, p) ==
    /\ GeofenceOf(d).defined
    /\ LET inside == isPointInsidePolygon(GeofenceOf(d).value, p) = "true"
           prev == GeoGet(lastState, d)
           ev == GeoEvent(prev, inside, now)
           st == GeoNewState(prev, inside, now)
           sprev == GeoGet(serialState, d)
           id == Len(geoLog) + 1
       IN  /\ geoLog' = Append(geoLog,
                  [dev |-> d, t |-> now, inside |-> inside, prev |-> prev.inside,
                   event |-> ev, sent |-> 0,
                   serial |-> GeoEvent(sprev, inside, now),
                   epoch |-> restarted])
           /\ serialState' = GeoSet(serialState, d, GeoNewState(sprev, inside, now))
           /\ IF ev = "none"
                THEN /\ lastState' = GeoSet(lastState, d, st)
                     /\ UNCHANGED geoFlight
                ELSE /\ Cardinality(geoFlight) < MaxInflight
                     /\ geoFlight' = geoFlight \cup
                            {[id |-> id, dev |-> d, write |-> st, stage |-> "geocode"]}
                     /\ UNCHANGED lastState
           /\ lastCall' = [n |-> lastCall.n + 1, dev |-> d, point |-> p,
                           fence |-> geofence[d].kind,
                           inside |-> IF inside THEN "true" ELSE "false"]

handleGeofence(d, p) ==
    /\ lastCall.n < MaxSamples
    /\ handleGeofenceCall(d, p)
    /\ UNCHANGED <<now, restarted, geofence, inactVars, ingestVars, apiVars, lastFailure, cacheVars, frontVars>>

\* line 162-163: `if (!polygon) return;`
handleGeofenceNoPolygon(d, p) ==
    /\ lastCall.n < MaxSamples
    /\ ~GeofenceOf(d).defined
    /\ lastCall' = [n |-> lastCall.n + 1, dev |-> d, point |-> p,
                    fence |-> geofence[d].kind, inside |-> "none"]
    /\ UNCHANGED <<now, lastState, geoFlight, geoLog, serialState, restarted,
                   geofence, inactVars, ingestVars, apiVars, lastFailure, cacheVars, frontVars>>

\* reverseGeocode resolves (address or null); formatMsg; notifyTelegram calls
\* telegram.sendMessage
GeocodeDone(f) ==
    /\ f \in geoFlight /\ f.stage = "geocode"
    /\ geoFlight' = (geoFlight \ {f}) \cup {[f EXCEPT !.stage = "notify"]}
    /\ geoLog' = [geoLog EXCEPT ![f.id].sent = @ + 1]
    /\ UNCHANGED <<now, lastState, serialState, restarted, geofence, lastCall, inactVars, ingestVars, apiVars, lastFailure, cacheVars, frontVars>>

\* telegram.sendMessage resolves or rejects (caught in notifyTelegram); the
\* handler stores the state it computed from the state it read at its start
NotifyDone(f) ==
    /\ f \in geoFlight /\ f.stage = "notify"
    /\ geoFlight' = geoFlight \ {f}
    /\ lastState' = GeoSet(lastState, f.dev, f.write)
    /\ UNCHANGED <<now, geoLog, serialState, restarted, geofence, lastCall, inactVars, ingestVars, apiVars, lastFailure, cacheVars, frontVars>>

\* process restart: the in-memory map and the suspended handlers are lost
GeoRestart ==
    /\ ~restarted
    /\ Len(geoLog) > 0
    /\ restarted' = TRUE
    /\ lastState' = EmptyMap
    /\ serialState' = EmptyMap
    /\ geoFlight' = {}
    /\ UNCHANGED <<now, geoLog, geofence, lastCall, inactVars, ingestVars, apiVars, lastFailure, cacheVars, frontVars>>

InitGeo ==
    /\ lastState = EmptyMap
    /\ serialState = EmptyMap
    /\ geoFlight = {}
    /\ geoLog = << >>
    /\ restarted = FALSE
    /\ geofence = [d \in Devices |-> PolygonObject(Fence)]
    /\ lastCall = [n |-> 0, dev |-> "d1", point |-> <<0, 0>>, fence |-> "null",
                   inside |-> "none"]

NextGeo ==
    \/ Tick
    \/ \E d \in Devices, p \in Points : handleGeofence(d, p)
    \/ \E f \in geoFlight : GeocodeDone(f)
    \/ \E f \in geoFlight : NotifyDone(f)
    \/ GeoRestart

----------------------------------------------------------------------------
(* controllers/devices.js (src/unnamed/part_004): the geofence route *)

\* isGeoJsonPolygon for a polygon given by its coordinates
isGeoJsonPolygon(coordinates) == Len(coordinates) > 0

RECURSIVE FilterPolygons(_)
FilterPolygons(list) ==
    IF Len(list) = 0 THEN << >>
    ELSE IF isGeoJsonPolygon(Head(list))
      THEN <<Head(list)>> \o FilterPolygons(Tail(list))
      ELSE FilterPolygons(Tail(list))

\* an array of the valid polygons, or null
normalizeGeofence(value) ==
    IF value.kind = "null" THEN NoGeofence
    ELSE IF value.kind = "array"
      THEN IF Len(FilterPolygons(value.polygons)) > 0
             THEN PolygonArray(FilterPolygons(value.polygons)) ELSE NoGeofence
    ELSE IF isGeoJsonPolygon(value.polygons[1]) THEN PolygonArray(value.polygons)
    ELSE NoGeofence

\* the geofence of the request body: null, one polygon, a list of polygons
FenceBodies == { NoGeofence, PolygonObject(Fence), PolygonArray(<<Fence, Fence2>>),
                 PolygonArray(<<Fence, << >> >>) }

\* updateDeviceGeofence: Device.update({ geofence: nextGeofence }) resolves
updateDeviceGeofence(d, body) ==
    /\ body.kind = "null" \/ normalizeGeofence(body).kind # "null"
    /\ geofence' = [geofence EXCEPT ![d] = normalizeGeofence(body)]
    /\ geofence'[d] # geofence[d]
    /\ UNCHANGED <<now, lastState, geoFlight, geoLog, serialState, restarted,
                   lastCall, inactVars, ingestVars, apiVars, lastFailure, cacheVars, frontVars>>

\* the route and the evaluator at one instant of the clock
NextFence ==
    \/ \E d \in Devices, body \in FenceBodies : updateDeviceGeofence(d, body)
    \/ \E d \in Devices, p \in Points : handleGeofence(d, p)
    \/ \E d \in Devices, p \in Points : handleGeofenceNoPolygon(d, p)
    \/ \E f \in geoFlight : GeocodeDone(f)
    \/ \E f \in geoFlight : NotifyDone(f)

----------------------------------------------------------------------------
(* utils/inactivity.js (src/unnamed/part_010) *)

Null == 0
TimeoutMs == 2
InactiveCooldownMs == 3

FreshState == [inactive |-> FALSE, lastInactiveAlertAt |-> 0, lastActiveAlertAt |-> 0]

shouldCooldownInact(prevTs, cooldownMs, t) ==
    IF prevTs = 0 THEN FALSE ELSE t - prevTs < cooldownMs

MapSet(map, d, v) == [x \in (DOMAIN map) \cup {d} |-> IF x = d THEN v ELSE map[x]]
MapDelete(map, d) == [x \in (DOMAIN map) \ {d} |-> map[x]]
NoMap == [x \in {} |-> 0]

\* clearTimer: clearTimeout on the handle the Map holds, and forget it
clearTimerArmed(tmap, armed, d) ==
    IF d \in DOMAIN tmap THEN {tm \in armed : tm.h # tmap[d]} ELSE armed
clearTimerMap(tmap, d) == MapDelete(tmap, d)

\* scheduleInactive(deviceId, delayMs): the armed timeouts and the Map after it
scheduleArmed(tmap, armed, d, delay, h, t) ==
    clearTimerArmed(tmap, armed, d) \cup
        {[h |-> h, dev |-> d, due |-> t + delay, byBump |-> (delay = TimeoutMs)]}
scheduleMap(tmap, d, h) == MapSet(clearTimerMap(tmap, d), d, h)

\* a handle (or call id) no armed timeout, Map entry or suspended call uses;
\* Cardinality(Devices) consecutive ones are free from it on
UsedIds == {tm.h : tm \in nodeTimers} \cup {timers[d] : d \in DOMAIN timers}
               \cup {f.id : f \in inactFlight}
FreeId == IF UsedIds = {} THEN 1
          ELSE (CHOOSE x \in UsedIds : \A y \in UsedIds : y <= x) + 1

\* states.get(deviceId) || { inactive: false, ... }: the reference, and the heap
\* with the fresh object when the Map has none
StateRef(d) == IF d \in DOMAIN states THEN states[d] ELSE Len(heap) + 1
HeapWith(d) == IF d \in DOMAIN states THEN heap ELSE Append(heap, FreshState)

\* line 212-215: the call finds the device flagged inactive and the active
\* alert out of its cooldown, so it sends "Device Active"
bumpSendsActive(d) ==
    LET s == HeapWith(d)[StateRef(d)]
    IN  s.inactive /\ ~shouldCooldownInact(s.lastActiveAlertAt, InactiveCooldownMs, now)

\* bumpActivity up to its first await, or to its end when it sends nothing.
\* m is the message the call belongs to.
bumpActivity(d, m) ==
    LET ref == StateRef(d)
        hp == HeapWith(d)
    IN  /\ lastBump' = [lastBump EXCEPT ![d] =
                            IF @.cur = now THEN @ ELSE [cur |-> now, prev |-> @.cur]]
        /\ quiet' = [quiet EXCEPT ![d] = 0]
        /\ IF bumpSendsActive(d)
             THEN /\ inactFlight' = inactFlight \cup
                         {[kind |-> "bump", id |-> FreeId, dev |-> d, ref |-> ref,
                           t0 |-> now, msg |-> m]}
                  /\ heap' = hp
                  /\ UNCHANGED <<states, timers, nodeTimers>>
             ELSE /\ heap' = [hp EXCEPT ![ref].inactive = FALSE]
                  /\ states' = MapSet(states, d, ref)
                  /\ nodeTimers' = scheduleArmed(timers, nodeTimers, d, TimeoutMs, FreeId, now)
                  /\ timers' = scheduleMap(timers, d, FreeId)
                  /\ UNCHANGED inactFlight

\* bumpActivity after its awaits (Device.findOne, reverseGeocode, notify: each
\* returns or fails into a catch, none touches the Maps): line 232-237
BumpNotifyReturned(f) ==
    /\ f \in inactFlight /\ f.kind = "bump"
    /\ inactFlight' = inactFlight \ {f}
    /\ heap' = [heap EXCEPT ![f.ref].lastActiveAlertAt = f.t0, ![f.ref].inactive = FALSE]
    /\ states' = MapSet(states, f.dev, f.ref)
    /\ nodeTimers' = scheduleArmed(timers, nodeTimers, f.dev, TimeoutMs, FreeId, now)
    /\ timers' = scheduleMap(timers, f.dev, FreeId)

BumpNotifyDone(f) ==
    /\ BumpNotifyReturned(f)
    /\ UNCHANGED <<now, geoVars, ingestVars, apiVars, lastFailure, cacheVars, frontVars, bootPc, bootSnap, devLastSeen, inactEvents, lastBump, quiet,
                   msgLog, secondBump>>

\* history: the last bumpActivity call of d strictly before t (0: none); a call
\* in the very tick of t is not counted, the timeout was due no later
LastBumpBefore(d, t) ==
    IF lastBump[d].cur < t THEN lastBump[d].cur ELSE lastBump[d].prev

\* what the timer callback does to the timers Map when it ends (line 179)
CallbackTimersEnd(tmap, d, h) == MapDelete(tmap, d)

\* the timeout callback of scheduleInactive up to its first await, or to its
\* end when the inactive alert is in its cooldown
TimerFire(tm) ==
    /\ tm \in nodeTimers /\ tm.due <= now
    /\ nodeTimers' = nodeTimers \ {tm}
    /\ LET ref == StateRef(tm.dev)
           hp == HeapWith(tm.dev)
           s == hp[ref]
           ev == Len(inactEvents) + 1
       IN  /\ inactEvents' = Append(inactEvents,
                  [dev |-> tm.dev, t |-> now, lastBump |-> LastBumpBefore(tm.dev, now),
                   nth |-> quiet[tm.dev] + 1, byBump |-> tm.byBump,
                   superseded |-> (tm.dev \in DOMAIN timers /\ timers[tm.dev] # tm.h),
                   alerts |-> IF shouldCooldownInact(s.lastInactiveAlertAt,
                                                     InactiveCooldownMs, now)
                                THEN 0 ELSE 1])
           /\ quiet' = [quiet EXCEPT ![tm.dev] = @ + 1]
           /\ heap' = [hp EXCEPT ![ref].inactive = TRUE]
           /\ IF ~shouldCooldownInact(s.lastInactiveAlertAt, InactiveCooldownMs, now)
                THEN /\ inactFlight' = inactFlight \cup
                            {[kind |-> "timer", id |-> tm.h, dev |-> tm.dev, ref |-> ref,
                              t0 |-> now, msg |-> ev]}
                     /\ UNCHANGED <<states, timers>>
                ELSE /\ states' = MapSet(states, tm.dev, ref)
                     /\ timers' = CallbackTimersEnd(timers, tm.dev, tm.h)
                     /\ UNCHANGED inactFlight
    /\ UNCHANGED <<now, geoVars, ingestVars, apiVars, lastFailure, cacheVars, frontVars, bootPc, bootSnap, devLastSeen, lastBump,
                   msgLog, secondBump>>

\* the timeout callback after its awaits: line 174, 178-179
TimerNotifyReturned(f) ==
    /\ f \in inactFlight /\ f.kind = "timer"
    /\ inactFlight' = inactFlight \ {f}
    /\ heap' = [heap EXCEPT ![f.ref].lastInactiveAlertAt = f.t0]
    /\ states' = MapSet(states, f.dev, f.ref)
    /\ timers' = CallbackTimersEnd(timers, f.dev, f.id)
    /\ UNCHANGED nodeTimers

TimerNotifyDone(f) ==
    /\ TimerNotifyReturned(f)
    /\ UNCHANGED <<now, geoVars, ingestVars, apiVars, lastFailure, cacheVars, frontVars, bootPc, bootSnap, devLastSeen,
                   inactEvents, lastBump, quiet, msgLog, secondBump>>

\* bootstrapInactivityTimers up to `await Device.findAll(...)`
BootstrapStart ==
    /\ bootPc = "init"
    /\ bootPc' = "loading"
    /\ bootSnap' = devLastSeen
    /\ UNCHANGED <<now, geoVars, ingestVars, apiVars, lastFailure, cacheVars, frontVars, timers, nodeTimers, states, heap,
                   inactFlight, devLastSeen, inactEvents, lastBump, quiet, msgLog, secondBump>>

\* line 196-199 for one row
BootDelay(lastTs, t) ==
    LET elapsed == IF lastTs = Null THEN 0 ELSE t - lastTs
        d == TimeoutMs - elapsed
    IN  IF d > 0 THEN d ELSE 0

RECURSIVE BootArmed(_, _, _, _)
BootArmed(ds, tmap, armed, h) ==
    IF ds = {} THEN armed
    ELSE LET d == CHOOSE x \in ds : TRUE
         IN  BootArmed(ds \ {d}, scheduleMap(tmap, d, h),
                       scheduleArmed(tmap, armed, d, BootDelay(bootSnap[d], now), h, now),
                       h + 1)
RECURSIVE BootMap(_, _, _)
BootMap(ds, tmap, h) ==
    IF ds = {} THEN tmap
    ELSE LET d == CHOOSE x \in ds : TRUE
         IN  BootMap(ds \ {d}, scheduleMap(tmap, d, h), h + 1)

\* the rows arrive: one scheduleInactive per stored device
BootstrapLoaded ==
    /\ bootPc = "loading"
    /\ bootPc' = "done"
    /\ nodeTimers' = BootArmed(Devices, timers, nodeTimers, FreeId)
    /\ timers' = BootMap(Devices, timers, FreeId)
    /\ UNCHANGED <<now, geoVars, ingestVars, apiVars, lastFailure, cacheVars, frontVars, states, heap, inactFlight, bootSnap, devLastSeen,
                   inactEvents, lastBump, quiet, msgLog, secondBump>>

\* Device.findAll rejects: the catch of line 203-205 logs, no timer is armed
BootstrapFailed ==
    /\ bootPc = "loading"
    /\ bootPc' = "failed"
    /\ UNCHANGED <<now, geoVars, ingestVars, apiVars, lastFailure, cacheVars, frontVars, timers, nodeTimers, states, heap,
                   inactFlight, bootSnap, devLastSeen, inactEvents, lastBump, quiet,
                   msgLog, secondBump>>

\* mqttService.updateDeviceLocation for a message of device d: Device.update
\* wrote lastSeen, and line 153 calls bumpActivity; saveLocationHistory follows
SampleCall(d) ==
    LET m == Len(msgLog) + 1
       IN  /\ msgLog' = Append(msgLog,
                  [dev |-> d,
                   wasInactive |-> (d \in DOMAIN states /\ heap[states[d]].inactive),
                   cooling |-> (d \in DOMAIN states /\
                                shouldCooldownInact(heap[states[d]].lastActiveAlertAt,
                                                    InactiveCooldownMs, now)),
                   activeAlerts |-> IF bumpSendsActive(d) THEN 1 ELSE 0])
           /\ secondBump' = secondBump \cup {m}
           /\ devLastSeen' = [devLastSeen EXCEPT ![d] = now]
           /\ bumpActivity(d, m)

Sample(d) ==
    /\ Len(msgLog) < MaxMsgs
    /\ SampleCall(d)
    /\ UNCHANGED <<now, geoVars, ingestVars, apiVars, lastFailure, cacheVars, frontVars, bootPc, bootSnap, inactEvents>>

\* mqttService.saveLocationHistory reaches line 240
SampleSavedCall(m) ==
    /\ m \in secondBump
    /\ secondBump' = secondBump \ {m}
    /\ bumpActivity(msgLog[m].dev, m)
    /\ msgLog' = [msgLog EXCEPT ![m].activeAlerts =
                      @ + IF bumpSendsActive(msgLog[m].dev) THEN 1 ELSE 0]

SampleSaved(m) ==
    /\ SampleSavedCall(m)
    /\ UNCHANGED <<now, geoVars, ingestVars, apiVars, lastFailure, cacheVars, frontVars, bootPc, bootSnap, devLastSeen, inactEvents>>

\* mqttService.saveLocationHistory throws before line 240
SampleSaveFailed(m) ==
    /\ m \in secondBump
    /\ secondBump' = secondBump \ {m}
    /\ UNCHANGED <<now, geoVars, ingestVars, apiVars, lastFailure, cacheVars, frontVars, timers, nodeTimers, states, heap,
                   inactFlight, bootPc, bootSnap, devLastSeen, inactEvents, lastBump, quiet,
                   msgLog>>

InitInact ==
    /\ timers = NoMap
    /\ nodeTimers = {}
    /\ states = NoMap
    /\ heap = << >>
    /\ inactFlight = {}
    /\ bootPc = "init"
    /\ bootSnap = [d \in Devices |-> Null]
    /\ devLastSeen \in [Devices -> {Null, 0 - TimeoutMs}]
    /\ inactEvents = << >>
    /\ lastBump = [d \in Devices |-> [cur |-> 0, prev |-> 0]]
    /\ quiet = [d \in Devices |-> 0]
    /\ msgLog = << >>
    /\ secondBump = {}

NextInact ==
    \/ Tick
    \/ BootstrapStart
    \/ BootstrapLoaded
    \/ BootstrapFailed
    \/ \E d \in Devices : Sample(d)
    \/ \E m \in secondBump : SampleSaved(m)
    \/ \E m \in secondBump : SampleSaveFailed(m)
    \/ \E tm \in nodeTimers : TimerFire(tm)
    \/ \E f \in inactFlight : BumpNotifyDone(f)
    \/ \E f \in inactFlight : TimerNotifyDone(f)

----------------------------------------------------------------------------
(* services/mqttService.js: the MQTT ingestion gateway *)

\* a topic is the list of its levels, topic.split('/')
Topics == { <<"gpstracker", "device", "d1", "location">>,
            <<"gpstracker", "device", "dx", "location">>,
            <<"gpstracker", "d1">> }

NullId == "<null>"
extractDeviceIdFromTopic(parts) ==
    IF Len(parts) < 3 THEN NullId ELSE parts[3]

\* !deviceId
Falsy(deviceId) == deviceId = NullId \/ deviceId = ""

\* a field the JSON object does not have, and the timestamp values JS takes
\* for false (undefined, 0)
Missing == 0
FutureTs == 3
BadLat == 999
Coordinates == { <<Missing, 2>>, <<2, BadLat>> }   \* invalid [longitude, latitude]
\* a timestamp that is no parseable date, and the Invalid Date it converts to
Malformed == -2
InvalidDate == -1
Timestamps == {Missing, FutureTs, Malformed}

\* new Date(timestamp)
newDate(timestamp) == IF timestamp = Malformed THEN InvalidDate ELSE timestamp
NoPayload == [json |-> FALSE, longitude |-> Missing, latitude |-> Missing,
              timestamp |-> Missing]
Messages == {NoPayload} \cup
            { [json |-> TRUE, longitude |-> 2, latitude |-> 2, timestamp |-> ts] :
                  ts \in Timestamps } \cup
            { [json |-> TRUE, longitude |-> c[1], latitude |-> c[2],
               timestamp |-> Missing] : c \in Coordinates }

\* what the broker delivers: every message on the topic of the stored device,
\* a well-formed message on every other topic
Deliveries == { x \in Topics \X Messages :
                   \/ extractDeviceIdFromTopic(x[1]) \in Devices
                   \/ (x[2].json /\ x[2].latitude = 2 /\ x[2].timestamp = Missing) }

\* parseMessage: the object JSON.parse returns, or null when it throws
parseMessage(message) == IF message.json THEN message ELSE NoPayload
IsNull(payload) == ~payload.json

\* typeof x === 'number'
IsNumber(x) == x # Missing

\* what handleMessage's promise settles to when a step throws: the catch of
\* line 71-73 logs the error and the function returns
Rethrown(error) == "rejected"
handleMessageCatch(error) == "resolved"

emitSkipped(emits) == emits
\* line 139-152 and 221-239: io.emit('locationUpdate', ...), the count of the
\* broadcasts of the message
emitLocationUpdate(emits) == emits + 1

NewHandler(topic, message, pc) ==
    [topic |-> topic, message |-> message, pc |-> pc, settled |-> "pending",
     effectiveTs |-> 0, rowWritten |-> FALSE, geofence |-> FALSE, emits |-> 0,
     bumps |-> 0, stored |-> FALSE, failed |-> FALSE, failedAt |-> "none",
     afterFailure |-> \E k \in 1..Len(handlers) : handlers[k].failed]

DeviceIdOf(h) == extractDeviceIdFromTopic(h.topic)
PayloadOf(h) == parseMessage(h.message)

\* handleMessage up to `await Device.update(...)`, or to its end when the
\* topic or the payload is dropped (line 58-62)
handleMessage(topic, message) ==
    /\ Len(handlers) < MaxReceived
    /\ ~crashed
    /\ LET deviceId == extractDeviceIdFromTopic(topic)
           payload == parseMessage(message)
       IN  handlers' = Append(handlers,
               IF Falsy(deviceId) \/ IsNull(payload)
                 THEN [NewHandler(topic, message, "done") EXCEPT !.settled = "resolved"]
                 ELSE NewHandler(topic, message, "update"))
    /\ UNCHANGED <<now, geoVars, inactVars, apiVars, lastFailure, cacheVars, frontVars, deviceRows, history, crashed>>

\* Device.update of line 106-121 resolves: the row of the device, when there
\* is one, has the new lastSeen and currentLocation
DeviceUpdateDone(i) ==
    /\ i \in 1..Len(handlers) /\ handlers[i].pc = "update"
    /\ LET d == DeviceIdOf(handlers[i])
           p == PayloadOf(handlers[i])
       IN  /\ deviceRows' = IF d \in Devices
                              THEN [deviceRows EXCEPT ![d] =
                                       [lastSeen |-> now, isActive |-> TRUE,
                                        coordinates |-> <<p.longitude, p.latitude>>]]
                              ELSE deviceRows
           /\ handlers' = [handlers EXCEPT ![i].pc = "find",
                                           ![i].rowWritten = (d \in Devices)]
    /\ UNCHANGED <<now, geoVars, inactVars, apiVars, lastFailure, cacheVars, frontVars, history, crashed>>

\* Device.findOne of line 123 resolves; line 132-153 run, updateDeviceLocation
\* returns, and saveLocationHistory runs up to its Device.findOne (line 175)
DeviceFindOneDone(i) ==
    /\ i \in 1..Len(handlers) /\ handlers[i].pc = "find"
    /\ LET d == DeviceIdOf(handlers[i])
           p == PayloadOf(handlers[i])
           updated == d \in Devices
       IN  handlers' = [handlers EXCEPT
               ![i].pc = "device",
               ![i].geofence = updated /\ IsNumber(p.longitude) /\ IsNumber(p.latitude),
               ![i].emits = emitLocationUpdate(@),
               ![i].bumps = @ + 1]
    /\ UNCHANGED <<now, geoVars, inactVars, apiVars, lastFailure, cacheVars, frontVars, deviceRows, history, crashed>>

\* saveLocationHistory line 175-189: the device row arrives; without one the
\* function returns, with one effectiveTs is taken and Location.findOne asked
HistoryDeviceDone(i) ==
    /\ i \in 1..Len(handlers) /\ handlers[i].pc = "device"
    /\ LET d == DeviceIdOf(handlers[i])
           p == PayloadOf(handlers[i])
       IN  handlers' = IF d \notin Devices
               THEN [handlers EXCEPT ![i].pc = "done", ![i].settled = "resolved"]
               ELSE [handlers EXCEPT ![i].pc = "last",
                        ![i].effectiveTs = IF p.timestamp # Missing
                                             THEN newDate(p.timestamp) ELSE now]
    /\ UNCHANGED <<now, geoVars, inactVars, apiVars, lastFailure, cacheVars, frontVars, deviceRows, history, crashed>>

\* the row Location.findOne returns for order timestamp DESC: the greatest
\* stored timestamp of the device (0: no row)
LastTimestamp(d) ==
    IF history[d] = << >> THEN 0
    ELSE LET ts == {history[d][k] : k \in 1..Len(history[d])}
         IN  CHOOSE x \in ts : \A y \in ts : y <= x

\* line 190-192; last = 0 stands for no row, found = FALSE for the findOne
\* that threw into the empty catch of line 193; getTime() of an Invalid Date
\* is NaN and no comparison with NaN holds
EffectiveTs(effectiveTs, last, found, t) ==
    IF /\ found /\ last # 0
       /\ effectiveTs # InvalidDate /\ last # InvalidDate
       /\ effectiveTs <= last
      THEN t ELSE effectiveTs

\* Location.findOne of line 184 settles
LastLookupDone(i, found) ==
    /\ i \in 1..Len(handlers) /\ handlers[i].pc = "last"
    /\ handlers' = [handlers EXCEPT
           ![i].pc = "create",
           ![i].effectiveTs = EffectiveTs(@, LastTimestamp(DeviceIdOf(handlers[i])),
                                          found, now)]
    /\ UNCHANGED <<now, geoVars, inactVars, apiVars, lastFailure, cacheVars, frontVars, deviceRows, history, crashed>>

\* Location.create of line 195 settles; line 221-240 run and handleMessage
\* returns. The database decides what becomes of an Invalid Date: in strict
\* mode the insert is rejected, otherwise the row holds an invalid date. The
\* toISOString() of line 230 throws on an Invalid Date into the catch of line
\* 237, before io.emit is called.
LocationCreateDone(i, strict) ==
    /\ i \in 1..Len(handlers) /\ handlers[i].pc = "create"
    /\ IF handlers[i].effectiveTs = InvalidDate /\ strict
         THEN /\ handlers' = [handlers EXCEPT
                      ![i].pc = "done", ![i].failed = TRUE, ![i].failedAt = "date",
                      ![i].settled = handleMessageCatch("thrown")]
              /\ crashed' = (crashed \/ handleMessageCatch("thrown") = "rejected")
              /\ UNCHANGED history
         ELSE /\ history' = [history EXCEPT ![DeviceIdOf(handlers[i])] =
                                 Append(@, handlers[i].effectiveTs)]
              /\ handlers' = [handlers EXCEPT
                      ![i].pc = "done", ![i].settled = "resolved",
                      ![i].stored = TRUE,
                      ![i].emits = IF newDate(PayloadOf(handlers[i]).timestamp) = InvalidDate
                                     THEN @ ELSE emitLocationUpdate(@),
                      ![i].bumps = @ + 1]
              /\ UNCHANGED crashed
    /\ UNCHANGED <<now, geoVars, inactVars, apiVars, lastFailure, cacheVars, frontVars, deviceRows>>

\* Device.update, Device.findOne (line 123 or 175) or Location.create rejects:
\* the catch of the function logs and rethrows (line 154-157, 241-244) into
\* handleMessage
PersistenceFails(i) ==
    /\ i \in 1..Len(handlers)
    /\ handlers[i].pc \in {"update", "find", "device", "create"}
    /\ handlers' = [handlers EXCEPT ![i].pc = "done", ![i].failed = TRUE,
                                    ![i].failedAt = handlers[i].pc,
                                    ![i].settled = handleMessageCatch("thrown")]
    /\ crashed' = (crashed \/ handleMessageCatch("thrown") = "rejected")
    /\ UNCHANGED <<now, geoVars, inactVars, apiVars, lastFailure, cacheVars, frontVars, deviceRows, history>>

InitIngest ==
    /\ handlers = << >>
    /\ deviceRows = [d \in Devices |->
                        [lastSeen |-> devLastSeen[d], isActive |-> devLastSeen[d] # Null,
                         coordinates |-> << >>]]
    /\ history = [d \in Devices |-> << >>]
    /\ crashed = FALSE

NextIngest ==
    \/ Tick
    \/ \E x \in Deliveries : handleMessage(x[1], x[2])
    \/ \E i \in 1..Len(handlers) : DeviceUpdateDone(i)
    \/ \E i \in 1..Len(handlers) : DeviceFindOneDone(i)
    \/ \E i \in 1..Len(handlers) : HistoryDeviceDone(i)
    \/ \E i \in 1..Len(handlers), found \in BOOLEAN : LastLookupDone(i, found)
    \/ \E i \in 1..Len(handlers), strict \in BOOLEAN : LocationCreateDone(i, strict)
    \/ \E i \in 1..Len(handlers) : PersistenceFails(i)

----------------------------------------------------------------------------
(* controllers/devices.js (src/unnamed/part_004): operations returning a
   device record *)

INACTIVE_TIMEOUT_MS == TimeoutMs

\* line 189-196: the copy of the record that is returned
applyStaleStatus(d, t) ==
    IF d.lastSeen # Null /\ t - d.lastSeen > INACTIVE_TIMEOUT_MS /\ d.isActive
      THEN [d EXCEPT !.isActive = FALSE]
      ELSE d

ReadOps == {"getDevices", "getDevice", "getDeviceStats"}

\* req.body of updateDevice: with or without an isActive field
Bodies == { [hasIsActive |-> FALSE, isActive |-> FALSE],
            [hasIsActive |-> TRUE, isActive |-> TRUE] }
NoBody == [hasIsActive |-> FALSE, isActive |-> FALSE]

Started == Cardinality(requests) + Len(responses)

\* res.status(200).json({ data: record })
Respond(op, d, record, t) ==
    Append(responses, [op |-> op, dev |-> d, lastSeen |-> record.lastSeen,
                       isActive |-> record.isActive, t |-> t])

\* getDevices (advancedResults), getDevice (findByPk), getDeviceStats
\* (findByPk): the row is read
ApiRead(op, d) ==
    /\ Started < MaxRequests
    /\ requests' = requests \cup
           {[op |-> op, dev |-> d, pc |-> "respond", row |-> deviceRows[d],
             body |-> NoBody]}
    /\ UNCHANGED <<now, geoVars, inactVars, ingestVars, lastFailure, cacheVars, frontVars, responses>>

\* line 242, 326, 656, 706: the record goes out through applyStaleStatus
ApiRespond(r) ==
    /\ r \in requests /\ r.pc = "respond"
    /\ requests' = requests \ {r}
    /\ responses' = Respond(r.op, r.dev, applyStaleStatus(r.row, now), now)
    /\ UNCHANGED <<now, geoVars, inactVars, ingestVars, lastFailure, cacheVars, frontVars>>

\* updateDevice up to `await Device.update(req.body, ...)` (line 349-370)
updateDevice(d, body) ==
    /\ Started < MaxRequests
    /\ requests' = requests \cup
           {[op |-> "updateDevice", dev |-> d, pc |-> "update",
             row |-> deviceRows[d], body |-> body]}
    /\ UNCHANGED <<now, geoVars, inactVars, ingestVars, lastFailure, cacheVars, frontVars, responses>>

\* Device.update(req.body) resolves
UpdateWritten(r) ==
    /\ r \in requests /\ r.pc = "update"
    /\ deviceRows' = [deviceRows EXCEPT ![r.dev].isActive =
                          IF r.body.hasIsActive THEN r.body.isActive ELSE @]
    /\ requests' = (requests \ {r}) \cup {[r EXCEPT !.pc = "reread"]}
    /\ UNCHANGED <<now, geoVars, inactVars, handlers, history, crashed, lastFailure, cacheVars, frontVars, responses>>

\* the findByPk of line 371 resolves and line 373-376 return the row as read
UpdateReread(r) ==
    /\ r \in requests /\ r.pc = "reread"
    /\ requests' = requests \ {r}
    /\ responses' = Respond(r.op, r.dev, deviceRows[r.dev], now)
    /\ UNCHANGED <<now, geoVars, inactVars, ingestVars, lastFailure, cacheVars, frontVars>>

\* heartbeatById / heartbeatByDeviceId up to `await device.save()`: the
\* instance read has lastSeen = new Date() and isActive = true
heartbeat(d) ==
    /\ Started < MaxRequests
    /\ requests' = requests \cup
           {[op |-> "heartbeat", dev |-> d, pc |-> "save",
             row |-> [deviceRows[d] EXCEPT !.lastSeen = now, !.isActive = TRUE],
             body |-> NoBody]}
    /\ UNCHANGED <<now, geoVars, inactVars, ingestVars, lastFailure, cacheVars, frontVars, responses>>

\* device.save() resolves; deviceHeartbeat is emitted, bumpActivity called
\* and the instance returned through applyStaleStatus (line 723-728)
HeartbeatSaved(r) ==
    /\ r \in requests /\ r.pc = "save"
    /\ requests' = requests \ {r}
    /\ deviceRows' = [deviceRows EXCEPT ![r.dev].lastSeen = r.row.lastSeen,
                                        ![r.dev].isActive = TRUE]
    /\ devLastSeen' = [devLastSeen EXCEPT ![r.dev] = r.row.lastSeen]
    /\ bumpActivity(r.dev, 0)
    /\ responses' = Respond(r.op, r.dev, applyStaleStatus(r.row, now), now)
    /\ UNCHANGED <<now, geoVars, handlers, history, crashed, lastFailure, cacheVars, frontVars, bootPc,
                   bootSnap, inactEvents, msgLog, secondBump>>

InitApi ==
    /\ requests = {}
    /\ responses = << >>

NextApi ==
    \/ Tick
    \/ \E op \in ReadOps, d \in Devices : ApiRead(op, d)
    \/ \E r \in requests : ApiRespond(r)
    \/ \E d \in Devices, body \in Bodies : updateDevice(d, body)
    \/ \E r \in requests : UpdateWritten(r)
    \/ \E r \in requests : UpdateReread(r)
    \/ \E d \in Devices : heartbeat(d)
    \/ \E r \in requests : HeartbeatSaved(r)
    \/ \E tm \in nodeTimers : TimerFire(tm)
    \/ \E f \in inactFlight : BumpNotifyDone(f)
    \/ \E f \in inactFlight : TimerNotifyDone(f)

----------------------------------------------------------------------------
(* The alert path behind ingestion: mqttService.updateDeviceLocation and
   saveLocationHistory call handleGeofence and bumpActivity; the address
   lookup and the notification channel can fail *)

reverseGeocodeThrows(outcome) == IF outcome = "ok" THEN "address" ELSE "thrown"

\* alertService.reverseGeocode (line 59-111): a failed fetch, a bad status and
\* the abort after 10 s all end in `return null`
reverseGeocode(outcome) == IF outcome = "ok" THEN "address" ELSE "null"

\* alertService.notifyTelegram (line 130-141): a rejection of
\* telegram.sendMessage is caught and logged
notifyTelegram(outcome) == "returned"

\* utils/inactivity notify (line 120-133): the same
notify(outcome) == "returned"

AwaitsOutstanding(d) ==
    \/ \E f \in geoFlight : f.dev = d
    \/ \E f \in inactFlight : f.dev = d

\* mqttService line 134, 153, 240: handleGeofence(...) and bumpActivity(...)
\* are called without await; the caller goes on with the pending promise
AwaitsAlerts(d) == FALSE

NoFailure == [handler |-> "none", cause |-> "none", alert |-> "none"]
Failure(handler, cause, alert) == [handler |-> handler, cause |-> cause, alert |-> alert]

\* the device moves out of the fence and back: the position of its m-th sample
SamplePoint(m) == IF m % 2 = 1 THEN <<6, 2>> ELSE <<2, 2>>

\* mqttService.updateDeviceLocation for a sample of d at p, from the row
\* Device.update wrote to its return (line 106-153)
updateDeviceLocation(d, p) ==
    /\ Len(msgLog) < MaxUpdates
    /\ ~crashed
    /\ ~AwaitsAlerts(d)
    /\ deviceRows' = [deviceRows EXCEPT ![d] =
                          [lastSeen |-> now, isActive |-> TRUE, coordinates |-> p]]
    /\ handleGeofenceCall(d, p)
    /\ SampleCall(d)
    /\ UNCHANGED <<now, restarted, geofence, handlers, history, crashed, apiVars,
                   lastFailure, cacheVars, frontVars, bootPc, bootSnap, inactEvents>>

\* mqttService.saveLocationHistory: Location.create resolved, line 221-240
saveLocationHistoryDone(m) ==
    /\ ~crashed
    /\ m \in secondBump
    /\ ~AwaitsAlerts(msgLog[m].dev)
    /\ history' = [history EXCEPT ![msgLog[m].dev] = Append(@, now)]
    /\ SampleSavedCall(m)
    /\ UNCHANGED <<now, geoVars, handlers, deviceRows, crashed, apiVars, lastFailure, cacheVars, frontVars,
                   bootPc, bootSnap, devLastSeen, inactEvents>>

\* handleGeofence: reverseGeocode fails or times out. With null for the
\* address formatMsg writes 'Alamat tidak tersedia' and the message goes to
\* notifyTelegram; an exception would end the handler in the catch of line 224
GeocodeFailed(f) ==
    /\ f \in geoFlight /\ f.stage = "geocode"
    /\ IF reverseGeocode("failed") = "thrown"
         THEN /\ geoFlight' = geoFlight \ {f}
              /\ lastFailure' = Failure("handleGeofence", "lookup", "dropped")
              /\ UNCHANGED geoLog
         ELSE /\ geoFlight' = (geoFlight \ {f}) \cup {[f EXCEPT !.stage = "notify"]}
              /\ geoLog' = [geoLog EXCEPT ![f.id].sent = @ + 1]
              /\ lastFailure' = Failure("handleGeofence", "lookup", "sent")
    /\ UNCHANGED <<now, lastState, serialState, restarted, geofence, lastCall,
                   inactVars, ingestVars, apiVars, cacheVars, frontVars>>

\* handleGeofence: telegram.sendMessage rejects (HTTP error, timeout, no
\* token); after notifyTelegram returns the handler stores its state
NotifyFailed(f) ==
    /\ f \in geoFlight /\ f.stage = "notify"
    /\ geoFlight' = geoFlight \ {f}
    /\ lastState' = IF notifyTelegram("failed") = "returned"
                      THEN GeoSet(lastState, f.dev, f.write) ELSE lastState
    /\ lastFailure' = Failure("handleGeofence", "channel", "dropped")
    /\ UNCHANGED <<now, geoLog, serialState, restarted, geofence, lastCall,
                   inactVars, ingestVars, apiVars, cacheVars, frontVars>>

InactHandler(f) == IF f.kind = "bump" THEN "bumpActivity" ELSE "timer"

\* bumpActivity or the timeout callback: Device.findOne or reverseGeocode
\* fails inside the try {} catch {} of line 156-172 / 217-231 (lookup), or
\* telegram.sendMessage rejects inside notify (channel). A rejection leaving
\* notify would reject the un-awaited call.
InactNotifyFailed(f, cause) ==
    /\ f \in inactFlight
    /\ lastFailure' = Failure(InactHandler(f), cause, IF cause = "lookup" THEN "sent" ELSE "dropped")
    /\ IF cause = "channel" /\ notify("failed") # "returned"
         THEN /\ crashed' = TRUE
              /\ inactFlight' = inactFlight \ {f}
              /\ UNCHANGED <<heap, states, timers, nodeTimers>>
         ELSE /\ IF f.kind = "bump" THEN BumpNotifyReturned(f) ELSE TimerNotifyReturned(f)
              /\ UNCHANGED crashed
    /\ UNCHANGED <<now, geoVars, handlers, deviceRows, history, apiVars, cacheVars, frontVars, bootPc,
                   bootSnap, devLastSeen, inactEvents, lastBump, quiet, msgLog,
                   secondBump>>

\* ingestion and its alerts at one instant of the clock
NextAlerts ==
    \/ BootstrapStart
    \/ BootstrapLoaded
    \/ \E d \in Devices : updateDeviceLocation(d, SamplePoint(Len(msgLog) + 1))
    \/ \E m \in secondBump : saveLocationHistoryDone(m)
    \/ \E tm \in nodeTimers : TimerFire(tm)
    \/ \E f \in geoFlight : GeocodeDone(f)
    \/ \E f \in geoFlight : GeocodeFailed(f)
    \/ \E f \in geoFlight : NotifyDone(f)
    \/ \E f \in geoFlight : NotifyFailed(f)
    \/ \E f \in inactFlight : BumpNotifyDone(f)
    \/ \E f \in inactFlight : TimerNotifyDone(f)
    \/ \E f \in inactFlight, cause \in {"lookup", "channel"} : InactNotifyFailed(f, cause)

----------------------------------------------------------------------------
(* frontend/src/components/LocationHistoryTable.tsx: the visits memo. The
   history mode of MapView.tsx (line 656-688) runs the same loop on the
   samples of its time range. Samples lie on one meridian, so that the
   haversine distance of two of them is the difference of their positions,
   given in metres; the running centre is kept as an exact fraction. *)

RADIUS_ENTER_M == 25
RADIUS_EXIT_M == 35
MIN_DURATION_MS == 30000
MIN_POINTS == 1
WindowMs == 86400000

\* positions (metres along the meridian) and timestamps (ms) of the samples
Positions == {0, 20, 30, 100}
Times == {0, 20000, 60000}
Locations == [lat : Positions, t : Times]
RenderTimes == {WindowMs, WindowMs + 20000}

RECURSIVE SeqsUpTo(_, _)
SeqsUpTo(S, n) ==
    IF n = 0 THEN { << >> }
    ELSE SeqsUpTo(S, n - 1) \cup
         {Append(q, x) : q \in {r \in SeqsUpTo(S, n - 1) : Len(r) = n - 1}, x \in S}

\* recent = locations.filter(t >= cutoff)
RECURSIVE FilterRecent(_, _)
FilterRecent(seq, cutoff) ==
    IF Len(seq) = 0 THEN << >>
    ELSE IF Head(seq).t >= cutoff
      THEN <<Head(seq)>> \o FilterRecent(Tail(seq), cutoff)
      ELSE FilterRecent(Tail(seq), cutoff)

\* Array.prototype.sort with (a, b) => a.t - b.t: stable, ascending
RECURSIVE InsertByTime(_, _)
InsertByTime(seq, x) ==
    IF Len(seq) = 0 THEN <<x>>
    ELSE IF Head(seq).t <= x.t THEN <<Head(seq)>> \o InsertByTime(Tail(seq), x)
    ELSE <<x>> \o seq

RECURSIVE SortByTime(_)
SortByTime(seq) ==
    IF Len(seq) = 0 THEN << >>
    ELSE InsertByTime(SortByTime(SubSeq(seq, 1, Len(seq) - 1)), seq[Len(seq)])

\* out.sort((a, b) => b.end - a.end): stable, latest first
RECURSIVE InsertByEndDesc(_, _)
InsertByEndDesc(seq, x) ==
    IF Len(seq) = 0 THEN <<x>>
    ELSE IF Head(seq).end >= x.end THEN <<Head(seq)>> \o InsertByEndDesc(Tail(seq), x)
    ELSE <<x>> \o seq

RECURSIVE SortByEndDesc(_)
SortByEndDesc(seq) ==
    IF Len(seq) = 0 THEN << >>
    ELSE InsertByEndDesc(SortByEndDesc(SubSeq(seq, 1, Len(seq) - 1)), seq[Len(seq)])

Abs(x) == IF x < 0 THEN 0 - x ELSE x

NoCluster == [num |-> 0, den |-> 1, count |-> 0, start |-> 0, end |-> 0]

\* dist <= r for dist = haversine(centerLat, centerLng, lat, lng)
WithinRadius(c, loc, r) == Abs(c.num - loc.lat * c.den) <= r * c.den

StartClusterKeepingCount(c, loc) ==
    [c EXCEPT !.count = @ + 1, !.end = loc.t]

\* line 137, 149: centerLat = lat; count = 1; start = t; end = t
StartCluster(c, loc) ==
    [num |-> loc.lat, den |-> 1, count |-> 1, start |-> loc.t, end |-> loc.t]

\* line 142-145: the running centre moves, count and end advance
JoinCluster(c, loc) ==
    [c EXCEPT !.num = c.num * c.count + loc.lat * c.den,
              !.den = c.den * (c.count + 1),
              !.count = @ + 1, !.end = loc.t]

KeepInClusterMovingCentre(c, loc) == JoinCluster(c, loc)

\* line 151-152: between the radii, count and end advance
KeepInCluster(c, loc) ==
    [c EXCEPT !.count = @ + 1, !.end = loc.t]

\* flushIfVisit (line 126-133)
flushIfVisit(visits, c) ==
    IF c.count > 0 /\ (c.end - c.start >= MIN_DURATION_MS \/ c.count >= MIN_POINTS)
      THEN Append(visits, [start |-> c.start, end |-> c.end, num |-> c.num,
                           den |-> c.den, count |-> c.count])
      ELSE visits

\* the memo starts for a new `locations` prop: filter, sort, loop variables
VisitsStart(seq, at) ==
    /\ vstage \in {"idle", "done"}
    /\ locations' = seq
    /\ renderAt' = at
    /\ sorted' = SortByTime(FilterRecent(seq, at - WindowMs))
    /\ vpos' = 0
    /\ cluster' = NoCluster
    /\ out' = << >>
    /\ vstage' = "loop"
    /\ UNCHANGED <<now, geoVars, inactVars, ingestVars, apiVars, lastFailure, cacheVars>>

\* one iteration of `for (const loc of sorted)`
VisitsStep ==
    /\ vstage = "loop"
    /\ vpos < Len(sorted)
    /\ LET loc == sorted[vpos + 1]
       IN  /\ vpos' = vpos + 1
           /\ IF cluster.count = 0
                THEN /\ cluster' = StartCluster(cluster, loc)
                     /\ UNCHANGED out
              ELSE IF WithinRadius(cluster, loc, RADIUS_ENTER_M)
                THEN /\ cluster' = JoinCluster(cluster, loc)
                     /\ UNCHANGED out
              ELSE IF ~WithinRadius(cluster, loc, RADIUS_EXIT_M)
                THEN /\ out' = flushIfVisit(out, cluster)
                     /\ cluster' = StartCluster(cluster, loc)
                ELSE /\ cluster' = KeepInCluster(cluster, loc)
                     /\ UNCHANGED out
    /\ UNCHANGED <<now, geoVars, inactVars, ingestVars, apiVars, lastFailure, cacheVars,
                   locations, renderAt, sorted, vstage>>

\* the loop has ended: the last flush and the sort of the result
VisitsEnd ==
    /\ vstage = "loop"
    /\ vpos = Len(sorted)
    /\ out' = SortByEndDesc(flushIfVisit(out, cluster))
    /\ vstage' = "done"
    /\ UNCHANGED <<now, geoVars, inactVars, ingestVars, apiVars, lastFailure, cacheVars,
                   locations, renderAt, sorted, vpos, cluster>>

InitVisits ==
    /\ locations = << >>
    /\ renderAt = WindowMs
    /\ sorted = << >>
    /\ vpos = 0
    /\ cluster = NoCluster
    /\ out = << >>
    /\ vstage = "idle"

\* the memo runs once for one prop
NextVisits ==
    \/ /\ vstage = "idle"
       /\ \E seq \in SeqsUpTo(Locations, MaxLen), at \in RenderTimes :
              VisitsStart(seq, at)
    \/ VisitsStep
    \/ VisitsEnd

----------------------------------------------------------------------------
(* services/alertService.js and the inactivity service: reverseGeocode and
   its addressCache. Each of the two modules has its own function and its own
   Map. Coordinates are in units of 0.000001 degree, keys in units of
   0.00001 degree. Node provides fetch, so the test of line 62 is false. *)

Services == {"alert", "inactivity"}

\* ADDRESS_TTL_MS, in the time unit of the clock
ADDRESS_TTL_MS == 2

\* a latitude Number.isFinite rejects (NaN, Infinity)
NotFinite == 9999999
IsFinite(x) == x # NotFinite

\* x.toFixed(5): the nearest multiple of 0.00001, the sign kept. The points
\* below avoid the midpoints, whose rounding depends on the binary value.
toFixed5(x) == IF x >= 0 THEN (x + 5) \div 10 ELSE -((5 - x) \div 10)

addressKeyFor(lat, lng) == <<toFixed5(lat), toFixed5(lng)>>

\* <<lat, lng>>: two points of one key, one of another key, one not finite
LookupPoints == { <<12, -14>>, <<14, -12>>, <<16, -14>>, <<NotFinite, -14>> }
AddressKeys == { addressKeyFor(p[1], p[2]) : p \in {q \in LookupPoints : IsFinite(q[1])} }

\* null, and the Map without the key
NoAddress == ""
NoEntry == [value |-> NoAddress, ts |-> 0]

\* what the upstream service answers: a status and a display_name, or the
\* fetch throws (network error, the abort after 10 s)
Upstream == { [kind |-> "ok", display_name |-> "Jl. A"],
              [kind |-> "ok", display_name |-> "Jl. B"],
              [kind |-> "ok", display_name |-> NoAddress],
              [kind |-> "http", display_name |-> NoAddress],
              [kind |-> "throws", display_name |-> NoAddress] }

\* line 87-90: the trimmed display_name when the answer has one, else null;
\* a bad status (line 82) and the catch (line 94 / 109) return null
DisplayOf(res) == IF res.kind = "ok" THEN res.display_name ELSE NoAddress

\* line 68: cached && cached.value && Date.now() - cached.ts < ADDRESS_TTL_MS
CacheHit(cached, t) ==
    cached # NoEntry /\ cached.value # NoAddress /\ t - cached.ts < ADDRESS_TTL_MS

\* line 92: if (display) addressCache.set(key, {value: display, ts: Date.now()})
CacheSet(cache, key, display, t) ==
    IF display # NoAddress
      THEN [cache EXCEPT ![key] = [value |-> display, ts |-> t]]
      ELSE cache

Lookup(svc, p, pc, contacted, result) ==
    [svc |-> svc, point |-> p, start |-> now, pc |-> pc, contacted |-> contacted,
     result |-> result, end |-> now,
     \* history: the calls that had returned when this one was made
     earlier |-> {k \in 1..Len(lookups) : lookups[k].pc = "done"}]

\* reverseGeocode(lat, lng) up to `await fetch(...)`, or to its return when
\* the coordinates are not finite or the cache answers
reverseGeocodeCall(svc, p) ==
    /\ Len(lookups) < MaxLookups
    /\ lookups' = Append(lookups,
           IF ~IsFinite(p[1]) \/ ~IsFinite(p[2])
             THEN Lookup(svc, p, "done", FALSE, NoAddress)
             ELSE LET cached == addressCache[svc][addressKeyFor(p[1], p[2])]
                  IN  IF CacheHit(cached, now)
                        THEN Lookup(svc, p, "done", FALSE, cached.value)
                        ELSE Lookup(svc, p, "fetch", TRUE, NoAddress))
    /\ UNCHANGED <<now, geoVars, inactVars, ingestVars, apiVars, lastFailure,
                   addressCache, frontVars>>

\* the fetch settles and reverseGeocode returns
reverseGeocodeFetched(i, res) ==
    /\ i \in 1..Len(lookups) /\ lookups[i].pc = "fetch"
    /\ LET l == lookups[i]
           display == DisplayOf(res)
       IN  /\ addressCache' = [addressCache EXCEPT ![l.svc] =
                   CacheSet(@, addressKeyFor(l.point[1], l.point[2]), display, now)]
           /\ lookups' = [lookups EXCEPT ![i].pc = "done", ![i].result = display,
                                         ![i].end = now]
    /\ UNCHANGED <<now, geoVars, inactVars, ingestVars, apiVars, lastFailure, frontVars>>

InitCache ==
    /\ addressCache = [svc \in Services |-> [k \in AddressKeys |-> NoEntry]]
    /\ lookups = << >>

NextCache ==
    \/ Tick
    \/ \E svc \in Services, p \in LookupPoints : reverseGeocodeCall(svc, p)
    \/ \E i \in 1..Len(lookups), res \in Upstream : reverseGeocodeFetched(i, res)

Init == now = 1 /\ InitGeo /\ InitInact /\ InitIngest /\ InitApi /\ lastFailure = NoFailure
        /\ InitVisits /\ InitCache

SpecCache == Init /\ [][NextCache]_vars

SpecFence == Init /\ [][NextFence]_vars
SpecGeo == Init /\ [][NextGeo]_vars
SpecInact == Init /\ [][NextInact]_vars
Spec == Init /\ [][NextIngest]_vars
SpecApi == Init /\ [][NextApi]_vars
SpecAlerts == Init /\ [][NextAlerts]_vars
SpecVisits == Init /\ [][NextVisits]_vars

\* the gateway with the clock held: the handlers' steps, their lastFailure and
\* their interleavings. No step of handleMessage reads the range of a
\* coordinate, so the out-of-range payload takes the steps of the valid one
\* and is left out of the deliveries.
GatewayDeliveries == { x \in Deliveries : x[2].latitude # BadLat }

NextGateway ==
    \/ \E x \in GatewayDeliveries : handleMessage(x[1], x[2])
    \/ \E i \in 1..Len(handlers) : DeviceUpdateDone(i)
    \/ \E i \in 1..Len(handlers) : DeviceFindOneDone(i)
    \/ \E i \in 1..Len(handlers) : HistoryDeviceDone(i)
    \/ \E i \in 1..Len(handlers), found \in BOOLEAN : LastLookupDone(i, found)
    \/ \E i \in 1..Len(handlers), strict \in BOOLEAN : LocationCreateDone(i, strict)
    \/ \E i \in 1..Len(handlers) : PersistenceFails(i)

SpecGateway == Init /\ [][NextGateway]_vars

----------------------------------------------------------------------------
(* Geofence evaluator: properties *)

GeoIds == 1..Len(geoLog)
InGeoFlight(i) == \E f \in geoFlight : f.id = i
\* the handler of sample i was lost with the process
GeoKilled(i) == geoLog[i].epoch # restarted
\* samples i..j are consecutive samples of one device, all outside, one process
OutsideRun(i, j) ==
    \A k \in i..j : /\ ~geoLog[k].inside
                    /\ geoLog[k].dev = geoLog[i].dev
                    /\ geoLog[k].epoch = geoLog[i].epoch

\* C4: when no handler of a device is suspended, the geofence state and the
\* alert decided for every sample are those of running the handlers one
\* after the other in arrival order.
C4_Serializable ==
    geoFlight = {} =>
        /\ lastState = serialState
        /\ \A i \in GeoIds : ~GeoKilled(i) => geoLog[i].event = geoLog[i].serial

\* C5: after an Inside->Outside transition seen at time T (sample i), while
\* the device stays outside: no sample before T + exitDwell sends an alert,
\* the first sample at or after T + exitDwell sends EXIT, and a later EXIT
\* comes no sooner than the cooldown after the previous one.
C5_ExitDwell ==
    \A i \in GeoIds :
        (geoLog[i].prev = "true" /\ ~geoLog[i].inside) =>
            /\ geoLog[i].event = "none"
            /\ \A j \in (i + 1)..Len(geoLog) :
                   OutsideRun(i, j) =>
                       /\ geoLog[j].t < geoLog[i].t + ExitDwellMs
                              => geoLog[j].event = "none"
                       /\ (/\ geoLog[j].t >= geoLog[i].t + ExitDwellMs
                           /\ \A k \in (i + 1)..(j - 1) :
                                  geoLog[k].t < geoLog[i].t + ExitDwellMs)
                              => geoLog[j].event = "Exit"
                       /\ \A k \in (i + 1)..(j - 1) :
                              (geoLog[k].event = "Exit" /\ geoLog[j].event = "Exit")
                                  => geoLog[j].t - geoLog[k].t >= CooldownMs

C7_FirstObservationSilent ==
    \A i \in GeoIds :
        geoLog[i].prev = "null" => (geoLog[i].event = "none" /\ geoLog[i].sent = 0)

\* after a restart the first sample, an outside one, was only recorded, and
\* before the restart the device had been seen inside
C7_Witness ==
    /\ restarted
    /\ \E i \in GeoIds :
        /\ geoLog[i].epoch /\ geoLog[i].prev = "null" /\ ~geoLog[i].inside
        /\ geoLog[i].event = "none"
        /\ "d1" \in DOMAIN lastState /\ lastState["d1"].inside = "false"
        /\ \E k \in GeoIds : k < i /\ ~geoLog[k].epoch /\ geoLog[k].inside

----------------------------------------------------------------------------
(* Inactivity scheduler: properties *)

InactIds == 1..Len(inactEvents)
MsgIds == 1..Len(msgLog)
ArmedFor(d) == {tm \in nodeTimers : tm.dev = d}

\* C2: a deviceInactive event of a timeout that bumpActivity armed comes only
\* after a silence of at least the timeout since the device's last
\* bumpActivity call, and a silence period sees one such event, not more.
C2_BumpedNeverInactive ==
    \A e \in InactIds :
        inactEvents[e].byBump =>
            /\ inactEvents[e].lastBump # 0
                   => inactEvents[e].t - inactEvents[e].lastBump >= TimeoutMs
            /\ inactEvents[e].nth = 1

\* C3: a device never has two armed inactivity timeouts, and a timeout that a
\* later scheduleInactive replaced never fires.
C3_OneTimer ==
    /\ \A d \in Devices : Cardinality(ArmedFor(d)) <= 1
    /\ \A e \in InactIds : ~inactEvents[e].superseded

\* C8: the bumpActivity calls of a message that finds its device flagged
\* inactive send "Device Active" exactly once between them (not at all
\* inside the cooldown of the last active alert), however they overlap.
C8_OneActiveAlert ==
    \A m \in MsgIds :
        msgLog[m].wasInactive =>
            /\ msgLog[m].activeAlerts <= 1
            /\ msgLog[m].cooling => msgLog[m].activeAlerts = 0
            /\ ~msgLog[m].cooling => msgLog[m].activeAlerts >= 1

\* max(0, timeout - (now - lastSeen)) for the lastSeen the store holds; a
\* device never seen has the whole timeout left
RemainingDelay(lastSeen, t) ==
    IF lastSeen = Null THEN TimeoutMs
    ELSE IF TimeoutMs - (t - lastSeen) > 0 THEN TimeoutMs - (t - lastSeen) ELSE 0

\* C13: when bootstrapInactivityTimers has gone through the stored devices,
\* every device has exactly one armed timeout, due max(0, timeout - (now -
\* lastSeen)) from now (at once for a device silent for longer).
C13_BootstrapTimers ==
    [][ (bootPc = "loading" /\ bootPc' = "done") =>
            \A d \in Devices :
                LET tms == {tm \in nodeTimers' : tm.dev = d}
                IN  /\ Cardinality(tms) = 1
                    /\ \A tm \in tms :
                           tm.due = now + RemainingDelay(devLastSeen[d], now) ]_vars

----------------------------------------------------------------------------
(* MQTT ingestion gateway: properties *)

HandlerIds == 1..Len(handlers)
HandlerSteps == {"update", "find", "device", "last", "create"}
OutOfRange(lng, lat) == lat > 90 \/ lat < -90 \/ lng > 180 \/ lng < -180
InvalidCoordinates(p) ==
    \/ ~IsNumber(p.latitude) \/ ~IsNumber(p.longitude)
    \/ OutOfRange(p.longitude, p.latitude)
WellFormed(h) ==
    /\ DeviceIdOf(h) \in Devices
    /\ PayloadOf(h).json
    /\ ~InvalidCoordinates(PayloadOf(h))
    /\ PayloadOf(h).timestamp # Malformed

\* C1: for every device the timestamps of the stored Location rows are
\* non-decreasing in the order saveLocationHistory inserted them, whatever
\* the incoming timestamps and however the handlers interleave.
C1_MonotonicHistory ==
    \A d \in Devices :
        \A k \in 1..(Len(history[d]) - 1) : history[d][k] <= history[d][k + 1]

\* C9: a message whose payload parses as JSON but has no numeric latitude or
\* longitude, or has one out of range, is dropped: no device row is written,
\* no history row added, no locationUpdate emitted, no bumpActivity called.
C9_InvalidDropped ==
    \A i \in HandlerIds :
        (PayloadOf(handlers[i]).json /\ InvalidCoordinates(PayloadOf(handlers[i]))) =>
            /\ ~handlers[i].rowWritten
            /\ ~handlers[i].stored
            /\ handlers[i].emits = 0
            /\ handlers[i].bumps = 0

\* C10: handleMessage never rejects into the MQTT client: for every topic,
\* payload and failing persistence step the handler is at a step that
\* settles or has resolved, and a well-formed message none of whose own
\* steps failed is processed in full, those received after a failure too.
C10_NeverRejects ==
    /\ ~crashed
    /\ \A i \in HandlerIds :
           /\ handlers[i].settled # "rejected"
           /\ handlers[i].pc = "done" <=> handlers[i].settled = "resolved"
           /\ handlers[i].pc # "done" => handlers[i].pc \in HandlerSteps
           /\ (WellFormed(handlers[i]) /\ handlers[i].pc = "done" /\ ~handlers[i].failed) =>
                  /\ handlers[i].rowWritten /\ handlers[i].stored
                  /\ handlers[i].emits = 2 /\ handlers[i].bumps = 2

\* a persistence step of one handler failed, and a message received after
\* that was stored
C10_Witness ==
    \E i \in HandlerIds :
        /\ handlers[i].afterFailure
        /\ handlers[i].stored
        /\ handlers[i].pc = "done"

\* C11: when the history append of a sample fails, the device row has the
\* update of the sample or of a later one (lastSeen, isActive,
\* currentLocation), the first locationUpdate of the sample was broadcast,
\* the handler resolved, and a well-formed message received after a failure
\* is stored.
C11_HistoryFailureKeepsUpdate ==
    /\ ~crashed
    /\ \A i \in HandlerIds :
           /\ handlers[i].failedAt = "create" =>
                  LET row == deviceRows[DeviceIdOf(handlers[i])]
                  IN  /\ handlers[i].rowWritten /\ ~handlers[i].stored
                      /\ handlers[i].emits = 1
                      /\ handlers[i].settled = "resolved"
                      /\ row.isActive /\ row.lastSeen # Null
                      /\ \E k \in HandlerIds :
                             /\ handlers[k].rowWritten
                             /\ DeviceIdOf(handlers[k]) = DeviceIdOf(handlers[i])
                             /\ row.coordinates = <<PayloadOf(handlers[k]).longitude,
                                                    PayloadOf(handlers[k]).latitude>>
           /\ (/\ handlers[i].afterFailure /\ WellFormed(handlers[i])
               /\ handlers[i].pc = "done" /\ ~handlers[i].failed)
                  => handlers[i].stored /\ handlers[i].emits = 2

\* the history append of one message failed and a later message was stored
C11_Witness ==
    \E i \in HandlerIds, j \in HandlerIds :
        /\ i < j
        /\ handlers[i].failedAt = "create"
        /\ handlers[j].afterFailure /\ handlers[j].stored

\* C12: a message of a stored device whose payload has no timestamp, or one
\* that is no parseable date, is stored (unless a persistence step of its
\* own failed for another reason) with a server time as its timestamp.
C12_ServerTimeSubstituted ==
    \A i \in HandlerIds :
        (/\ DeviceIdOf(handlers[i]) \in Devices
         /\ PayloadOf(handlers[i]).json
         /\ PayloadOf(handlers[i]).timestamp \in {Missing, Malformed}
         /\ handlers[i].pc = "done"
         /\ handlers[i].failedAt \in {"none", "date"})
            => /\ handlers[i].stored
               /\ handlers[i].effectiveTs \in 1..now

----------------------------------------------------------------------------
(* Device controllers: properties *)

\* C14: every device record returned to a caller (getDevices, getDevice,
\* updateDevice, getDeviceStats, heartbeat) has isActive = false when its
\* lastSeen is older than the inactivity timeout, whatever the stored flag,
\* and a read operation leaves the stored row as it was.
C14_StaleReportedInactive ==
    [][ Len(responses') > Len(responses) =>
            LET r == responses'[Len(responses')]
            IN  /\ (r.lastSeen # Null /\ r.t - r.lastSeen > INACTIVE_TIMEOUT_MS)
                       => ~r.isActive
                /\ r.op \in ReadOps => deviceRows' = deviceRows ]_vars

----------------------------------------------------------------------------
(* Geofence configuration: properties *)

\* the point lies within the outer ring of at least one polygon of g
InsideSome(g, p) ==
    \E k \in 1..Len(g.polygons) : isPointInsidePolygon(g.polygons[k], p) = "true"

\* C15: when the geofence of the device was stored through
\* updateDeviceGeofence (an array of polygons), a handleGeofence call
\* classifies the sample as inside exactly when the point lies within the
\* outer ring of at least one of the polygons.
C15_InsideSomePolygon ==
    [][ (lastCall'.n > lastCall.n /\ lastCall'.fence = "array") =>
            ((lastCall'.inside = "true") <=>
                 InsideSome(geofence[lastCall'.dev], lastCall'.point)) ]_vars

\* C16: a handleGeofence call for a device without a geofence leaves the
\* lastState map and the suspended handlers as they were and decides on no
\* alert.
C16_NoGeofenceNoAction ==
    [][ (lastCall'.n > lastCall.n /\ lastCall'.fence = "null") =>
            /\ lastState' = lastState
            /\ geoFlight' = geoFlight
            /\ geoLog' = geoLog ]_vars

\* a sample was handled without a geofence while the device had runtime
\* state from samples handled under an earlier geofence
C16_Witness ==
    /\ lastCall.n >= 3
    /\ lastCall.fence = "null"
    /\ geofence[lastCall.dev].kind = "null"
    /\ lastCall.dev \in DOMAIN lastState

----------------------------------------------------------------------------
(* Inactivity alerts: properties *)

\* an earlier expiry of the same device sent its inactive alert less than the
\* inactive-alert cooldown before expiry e
InactiveAlertWithin(e) ==
    \E j \in 1..(e - 1) :
        /\ inactEvents[j].dev = inactEvents[e].dev
        /\ inactEvents[j].alerts = 1
        /\ inactEvents[e].t - inactEvents[j].t < InactiveCooldownMs

\* C17: every expiry of an inactivity timeout broadcasts deviceInactive (one
\* record of inactEvents each) and sends the inactive alert exactly when no
\* inactive alert of the device was sent within the cooldown before it.
C17_ExpiryAlerts ==
    \A e \in InactIds : (inactEvents[e].alerts = 1) <=> ~InactiveAlertWithin(e)

\* C18: two alerts of one kind for one device (two ENTER, two EXIT, two
\* inactive alerts) are at least the cooldown of that kind apart.
C18_SameKindCooldown ==
    /\ \A i, j \in GeoIds :
           (/\ i < j
            /\ geoLog[i].dev = geoLog[j].dev
            /\ geoLog[i].event # "none"
            /\ geoLog[i].event = geoLog[j].event)
               => geoLog[j].t - geoLog[i].t >= CooldownMs
    /\ \A i, j \in InactIds :
           (/\ i < j
            /\ inactEvents[i].dev = inactEvents[j].dev
            /\ inactEvents[i].alerts = 1
            /\ inactEvents[j].alerts = 1)
               => inactEvents[j].t - inactEvents[i].t >= InactiveCooldownMs

----------------------------------------------------------------------------
(* Alert lastFailure and the ingestion path: properties *)

\* C19: no failure of the address lookup or of the notification channel
\* leaves handleGeofence, bumpActivity or the timeout callback as a
\* rejection, and after a failed lookup the alert is still handed to the
\* channel (with the address reported as unavailable).
C19_FailuresSwallowed ==
    /\ ~crashed
    /\ lastFailure.cause = "lookup" => lastFailure.alert = "sent"

\* the lookup failed for the ENTER alert of a sample, the alert went to the
\* channel, and the history append of the sample completed afterwards
C19_Witness ==
    /\ lastFailure = Failure("handleGeofence", "lookup", "sent")
    /\ \E i \in GeoIds : geoLog[i].event = "Enter" /\ geoLog[i].sent = 1
    /\ geoFlight = {}
    /\ secondBump = {}
    /\ \A d \in Devices : Len(history[d]) = Len(msgLog)

\* C20: while a notification of a device is outstanding (handleGeofence,
\* bumpActivity or the timeout callback waiting for the lookup or the
\* channel), the history append of every sample under way can complete, and
\* so can the device update of the next sample.
C20_IngestionNeverWaits ==
    /\ \A m \in secondBump : ENABLED saveLocationHistoryDone(m)
    /\ (Len(msgLog) < MaxUpdates /\ Cardinality(geoFlight) < MaxInflight)
           => \A d \in Devices :
                  ENABLED updateDeviceLocation(d, SamplePoint(Len(msgLog) + 1))

\* the second sample of d1 was updated and stored while the active alert of
\* the first sample and the ENTER alert of the second are still waiting
C20_Witness ==
    /\ Len(msgLog) = 2
    /\ secondBump = {}
    /\ Len(history["d1"]) = 2
    /\ deviceRows["d1"].coordinates = SamplePoint(2)
    /\ \E f \in inactFlight : f.kind = "bump" /\ f.dev = "d1" /\ f.msg = 1
    /\ \E f \in geoFlight : f.dev = "d1" /\ f.id = 2

----------------------------------------------------------------------------
(* Visit clustering: properties *)

\* a step of the loop is taken on a running cluster; TakenLoc is its sample
LoopStep == vstage = "loop" /\ vpos' = vpos + 1 /\ cluster.count > 0
TakenLoc == sorted[vpos + 1]

VisitOf(c) == [start |-> c.start, end |-> c.end, num |-> c.num, den |-> c.den,
               count |-> c.count]

\* the loop as a fold over the samples in time order
RECURSIVE ClusterFold(_, _, _)
ClusterFold(seq, c, visits) ==
    IF Len(seq) = 0 THEN flushIfVisit(visits, c)
    ELSE IF c.count = 0
      THEN ClusterFold(Tail(seq), StartCluster(c, Head(seq)), visits)
    ELSE IF WithinRadius(c, Head(seq), RADIUS_ENTER_M)
      THEN ClusterFold(Tail(seq), JoinCluster(c, Head(seq)), visits)
    ELSE IF ~WithinRadius(c, Head(seq), RADIUS_EXIT_M)
      THEN ClusterFold(Tail(seq), StartCluster(c, Head(seq)), flushIfVisit(visits, c))
    ELSE ClusterFold(Tail(seq), KeepInCluster(c, Head(seq)), visits)

InBand(c, loc) ==
    ~WithinRadius(c, loc, RADIUS_ENTER_M) /\ WithinRadius(c, loc, RADIUS_EXIT_M)

\* C24: a sample farther than the enter radius and at most the exit radius
\* from the centre joins the running cluster (count and end advance) without
\* moving the centre and without closing a visit; the centre of a running
\* cluster moves only for a sample within the enter radius.
C24_HysteresisBand ==
    [][ LoopStep =>
            /\ InBand(cluster, TakenLoc) =>
                   /\ cluster' = [cluster EXCEPT !.count = @ + 1, !.end = TakenLoc.t]
                   /\ out' = out
            /\ (cluster'.count = cluster.count + 1 /\
                cluster'.num * cluster.den # cluster.num * cluster'.den)
                   => WithinRadius(cluster, TakenLoc, RADIUS_ENTER_M) ]_vars

\* the last sample taken lies in the band of a cluster whose centre an
\* earlier sample had moved
C24_Witness ==
    /\ vstage = "loop"
    /\ cluster.count >= 3
    /\ cluster.den > 1
    /\ InBand(cluster, sorted[vpos])
    /\ cluster.end = sorted[vpos].t

\* C25: every visit of the list lasts at least 30 seconds from its first to
\* its last sample.
C25_MinimumDwell ==
    \A i \in 1..Len(out) : out[i].end - out[i].start >= MIN_DURATION_MS

----------------------------------------------------------------------------
(* Geofence EXIT alerts: properties *)

\* the dwell clock of sample j has reached the threshold: the device has been
\* outside at every sample since one at least the exit dwell earlier
DwellReached(j) ==
    \E i \in 1..(j - 1) : OutsideRun(i, j) /\ geoLog[j].t - geoLog[i].t >= ExitDwellMs

\* the last alert sent for the device of sample j before it was an EXIT less
\* than the cooldown ago
ExitInCooldown(j) ==
    \E k \in 1..(j - 1) :
        /\ geoLog[k].dev = geoLog[j].dev
        /\ geoLog[k].epoch = geoLog[j].epoch
        /\ geoLog[k].event = "Exit"
        /\ \A l \in (k + 1)..(j - 1) :
               geoLog[l].dev = geoLog[j].dev => geoLog[l].event = "none"
        /\ geoLog[j].t - geoLog[k].t < CooldownMs

\* C22: a still-outside sample whose dwell clock has reached the exit dwell
\* sends EXIT exactly when it is not the case that the last alert sent was an
\* EXIT less than the cooldown ago.
C22_ExitUnlessCooldown ==
    \A j \in GeoIds :
        DwellReached(j) => ((geoLog[j].event = "Exit") <=> ~ExitInCooldown(j))

\* C28: an EXIT alert is decided for a sample only if an earlier sample of the
\* device, handled since the geofence state of the device was created (same
\* process), was inside.
C28_ExitOnlyAfterInside ==
    \A j \in GeoIds :
        geoLog[j].event = "Exit" =>
            \E k \in 1..(j - 1) :
                /\ geoLog[k].dev = geoLog[j].dev
                /\ geoLog[k].epoch = geoLog[j].epoch
                /\ geoLog[k].inside

----------------------------------------------------------------------------
(* Inactivity timers: properties *)

\* C26: a device whose state in the states Map is flagged inactive has no
\* armed inactivity timeout.
C26_InactiveHasNoTimer ==
    \A d \in Devices :
        (d \in DOMAIN states /\ heap[states[d]].inactive) => ArmedFor(d) = {}

\* C27: when bootstrapInactivityTimers schedules, a timeout that bumpActivity
\* armed for a device is not replaced by one that is due earlier.
C27_BootstrapKeepsDeadline ==
    [][ (bootPc = "loading" /\ bootPc' = "done") =>
            \A tm \in nodeTimers :
                (tm.byBump /\ tm.dev \in DOMAIN timers /\ timers[tm.dev] = tm.h) =>
                    \A tn \in nodeTimers' :
                        (tn.dev = tm.dev /\ timers'[tn.dev] = tn.h) => tn.due >= tm.due ]_vars

\* C29: a message whose topic names a device key that no stored device row
\* has leaves no history row, broadcasts no locationUpdate and does not reach
\* bumpActivity (which would store an inactivity state and arm a timeout for
\* the key).
C29_UnknownDeviceIgnored ==
    \A i \in HandlerIds :
        (~Falsy(DeviceIdOf(handlers[i])) /\ DeviceIdOf(handlers[i]) \notin Devices) =>
            /\ ~handlers[i].stored
            /\ handlers[i].emits = 0
            /\ handlers[i].bumps = 0

\* C30: a sample of a stored device whose device row was written and looked
\* up has exactly one locationUpdate broadcast, from the moment the history
\* append is started to the end of its handler.
C30_OneBroadcastPerSample ==
    \A i \in HandlerIds :
        (/\ handlers[i].rowWritten
         /\ handlers[i].pc \in {"device", "last", "create", "done"}
         /\ handlers[i].failedAt \notin {"update", "find"}) =>
            handlers[i].emits = 1

----------------------------------------------------------------------------
(* The address cache: properties *)

KeyOf(l) == addressKeyFor(l.point[1], l.point[2])

\* the calls that had returned an address fetched from the upstream service
\* for the key of call j when j was made
FetchedBefore(j) ==
    { i \in lookups[j].earlier :
          /\ lookups[i].contacted /\ lookups[i].result # NoAddress
          /\ IsFinite(lookups[i].point[1])
          /\ KeyOf(lookups[i]) = KeyOf(lookups[j]) }

\* C23: a call of reverseGeocode whose coordinates round to the key of an
\* earlier call that fetched an address less than ADDRESS_TTL_MS before
\* returns an address fetched earlier for the key and does not contact the
\* upstream service; when every such fetch is at least ADDRESS_TTL_MS old the
\* service is contacted; and every cache entry holds an address that a fetch
\* returned at the entry's time.
C23_AddressCache ==
    /\ \A j \in 1..Len(lookups) :
           IsFinite(lookups[j].point[1]) =>
               /\ (\E i \in FetchedBefore(j) :
                       lookups[j].start - lookups[i].end < ADDRESS_TTL_MS) =>
                      /\ ~lookups[j].contacted
                      /\ \E i \in FetchedBefore(j) : lookups[j].result = lookups[i].result
               /\ (/\ FetchedBefore(j) # {}
                   /\ \A i \in FetchedBefore(j) :
                          lookups[j].start - lookups[i].end >= ADDRESS_TTL_MS) =>
                      lookups[j].contacted
    /\ \A svc \in Services, k \in AddressKeys :
           addressCache[svc][k] # NoEntry =>
               /\ addressCache[svc][k].value # NoAddress
               /\ \E i \in 1..Len(lookups) :
                      /\ lookups[i].pc = "done" /\ lookups[i].contacted
                      /\ lookups[i].svc = svc /\ KeyOf(lookups[i]) = k
                      /\ lookups[i].result = addressCache[svc][k].value
                      /\ lookups[i].end = addressCache[svc][k].ts
====
